---- MODULE Spec2Model ----
(***************************************************************************)
(* State-machine model of CallHandler (src/src/index.ts): a capacity      *)
(* counter (requestsLastPeriod), a FIFO queue of pending requests, slot    *)
(* releases scheduled with timeout(), and retry with backoff where the     *)
(* whole capacity is blocked while a retry chain is pending.               *)
(*                                                                         *)
(* One action is one synchronous run of handler code (JavaScript runs each *)
(* callback to completion).  Time is a discrete clock advanced by tick.    *)
(***************************************************************************)
EXTENDS Integers, Sequences, FiniteSets, TLC

\* ---- bounds of the model ----
NumCalls == 3
MaxRateLim == 2
MaxPeriod == 2
MaxRetries == 2
MaxWait == 2
MaxFailures == 3
MaxBelowOne == 1
MaxDelay == 5
MaxLate == 1
MaxFirings == 4

Calls == 1..NumCalls

\* `undefined` as returned by getBackoff (index.ts line 40); the waits a
\* backoff function returns are taken to be >= 0.
Undefined == -1

VARIABLES
    rateLim,            \* this.rateLim (after the constructor's coercion)
    periodLength,       \* this.periodLength
    backoff,            \* the constructor's backoff argument
    requestsLastPeriod, \* this.requestsLastPeriod
    queue,              \* this.queue: ids of the queued requests, head first
    phase,              \* per call: where its sendReq chain stands
    attemptNr,          \* per call: attemptNr of its latest sendReq
    held,               \* per call: pending blockRequests(result, rateLim)
    wait,               \* per call: waitTime of its pending backoff timeout
    waited,             \* per call: delta of that timeout (capped at wait)
    slots,              \* slots[a]: pending blockRequests(timeout(periodLength)) of age a
    submitted,          \* number of call() invocations so far
    calls,              \* per call: how often its function was invoked
    started,            \* calls in the order of their first invocation
    enqueued,           \* calls in the order sendQueue pushed them
    result,             \* per call: what its promise settled with
    settles,            \* per call: how often its promise was settled
    admitAge,           \* per call: time since its first invocation (capped
                        \* above periodLength)
    sinceFail,          \* per call: time since its latest retried failure (capped)
    waitedTotal,        \* per call: time spent between a failure and its retry
    failures,           \* number of failed attempts so far
    queried,            \* per call: the attempt numbers getBackoff was called with
    delay               \* one call of timeout() looked at on its own: its locals,
                        \* the clock and the timer it has set

\* what the handler's steps leave alone
config == <<rateLim, periodLength, backoff, delay>>
handler == <<requestsLastPeriod, queue, phase, attemptNr, held, wait, waited, slots>>
history == <<submitted, calls, started, enqueued, result, settles, admitAge, sinceFail,
             waitedTotal, failures, queried>>
vars == <<config, handler, history>>

Pow2(n) == 2 ^ n

NoResult == [kind |-> "none", of |-> 0, attempt |-> 0]

\* Coerce with a fault: the rateLim argument is stored as it is
CoerceNone(r) == r

\* constructor, line 32
Coerce(r) == IF r < 1 THEN 1 ELSE r

\* The backoff arguments considered: a retry count, or a function that
\* returns a fixed wait for the first failure and undefined afterwards.
BackoffArgs ==
    [kind : {"count"}, k : 0..MaxRetries, w : {0}]
        \cup [kind : {"fn"}, k : {0}, w : 1..MaxWait]

\* getBackoff with a fault: one retry too many (`<=` for `<`)
getBackoffOneMore(n) ==
    IF backoff.kind = "count"
    THEN IF n <= backoff.k THEN periodLength * Pow2(n) ELSE Undefined
    ELSE IF n = 0 THEN backoff.w ELSE Undefined

\* getBackoff with a fault: the default wait does not grow with the attempt
getBackoffFlat(n) ==
    IF backoff.kind = "count"
    THEN IF n < backoff.k THEN periodLength ELSE Undefined
    ELSE IF n = 0 THEN backoff.w ELSE Undefined

\* getBackoff with a fault: the custom function never gives up
getBackoffFnAlways(n) ==
    IF backoff.kind = "count"
    THEN IF n < backoff.k THEN periodLength * Pow2(n) ELSE Undefined
    ELSE backoff.w

\* this.getBackoff(e, n), lines 35-45
getBackoff(n) ==
    IF backoff.kind = "count"
    THEN IF n < backoff.k THEN periodLength * Pow2(n) ELSE Undefined
    ELSE IF n = 0 THEN backoff.w ELSE Undefined

\* `if (wait)`, line 86: undefined and 0 are falsy
Truthy(w) == w # Undefined /\ w # 0

\* ---- the handler's state as one value, so that a synchronous run that
\* calls sendReq several times (checkQueue's loop) is one step ----
H ==
    [requestsLastPeriod |-> requestsLastPeriod, queue |-> queue, phase |-> phase,
     attemptNr |-> attemptNr, held |-> held, wait |-> wait, waited |-> waited,
     slots |-> slots, calls |-> calls, started |-> started, result |-> result,
     settles |-> settles, admitAge |-> admitAge, sinceFail |-> sinceFail,
     waitedTotal |-> waitedTotal, failures |-> failures, queried |-> queried]

Install(h) ==
    /\ requestsLastPeriod' = h.requestsLastPeriod
    /\ queue' = h.queue
    /\ phase' = h.phase
    /\ attemptNr' = h.attemptNr
    /\ held' = h.held
    /\ wait' = h.wait
    /\ waited' = h.waited
    /\ slots' = h.slots
    /\ calls' = h.calls
    /\ started' = h.started
    /\ result' = h.result
    /\ settles' = h.settles
    /\ admitAge' = h.admitAge
    /\ sinceFail' = h.sinceFail
    /\ waitedTotal' = h.waitedTotal
    /\ failures' = h.failures
    /\ queried' = h.queried
    /\ failures' <= MaxFailures

\* HasRoom with a fault: one slot is never used
HasRoomStrict(n) == n + 1 < rateLim

\* HasRoom with a fault: `<=` for `<`
HasRoomInclusive(n) == n <= rateLim

\* `this.requestsLastPeriod < this.rateLim`, lines 51 and 111
HasRoom(n) == n < rateLim

\* TimeoutDone with a fault: the timer fired one unit early and is not re-armed
TimeoutDoneEarly(waitTime, delta) == delta + 1 >= waitTime

\* the loop condition of timeout(), lines 9 and 15: done once delta >= waitTime
TimeoutDone(waitTime, delta) == delta >= waitTime

\* Finish with a fault: a call that was retried rejects with the error of its
\* first attempt
FinishFirstError(h, c, kind) ==
    LET r == [kind |-> kind, of |-> c,
              attempt |-> IF kind = "error" THEN 0 ELSE h.attemptNr[c]] IN
    IF h.held[c] = 0
    THEN [h EXCEPT !.phase[c] = IF kind = "value" THEN "resolved" ELSE "rejected",
                   !.result[c] = r,
                   !.settles[c] = @ + 1]
    ELSE [h EXCEPT !.phase[c] = "unwind", !.result[c] = r]

\* Finish with a fault: a retry's outcome settles the caller's promise although
\* the enclosing sendReq will settle it too
FinishTwice(h, c, kind) ==
    LET r == [kind |-> kind, of |-> c, attempt |-> h.attemptNr[c]] IN
    IF h.held[c] = 0
    THEN [h EXCEPT !.phase[c] = IF kind = "value" THEN "resolved" ELSE "rejected",
                   !.result[c] = r,
                   !.settles[c] = @ + 1]
    ELSE [h EXCEPT !.phase[c] = "unwind", !.result[c] = r, !.settles[c] = @ + 1]

\* The promise of call c's sendReq chain is settled (line 79 returns the value,
\* line 92 rethrows the error).  With no retry pending above it this is the
\* promise call() returned (directly, or through passPromise, lines 62-66);
\* otherwise the enclosing blockRequests(result, rateLim) calls resume first.
Finish(h, c, kind) ==
    LET r == [kind |-> kind, of |-> c, attempt |-> h.attemptNr[c]] IN
    IF h.held[c] = 0
    THEN [h EXCEPT !.phase[c] = IF kind = "value" THEN "resolved" ELSE "rejected",
                   !.result[c] = r,
                   !.settles[c] = @ + 1]
    ELSE [h EXCEPT !.phase[c] = "unwind", !.result[c] = r]

\* blockStart with a fault: twice the amount is taken
blockStartDouble(h, amount) ==
    [h EXCEPT !.requestsLastPeriod = @ + 2 * amount]

\* blockStart with a fault: the amount is ignored, one slot is taken
blockStartOne(h, amount) ==
    [h EXCEPT !.requestsLastPeriod = @ + 1]

\* blockRequests up to its await, line 99
blockStart(h, amount) ==
    [h EXCEPT !.requestsLastPeriod = @ + amount]

\* sendReqCatch with a fault: the capacity is blocked also when the backoff
\* policy gives up
sendReqCatchContain(h, c) ==
    LET w == getBackoff(h.attemptNr[c])
        h1 == [h EXCEPT !.failures = @ + 1,
                        !.queried[c] = Append(@, h.attemptNr[c])] IN
    IF Truthy(w)
    THEN [blockStart(h1, rateLim) EXCEPT !.held[c] = @ + 1,
                                         !.phase[c] = "backoff",
                                         !.wait[c] = w,
                                         !.waited[c] = 0,
                                         !.sinceFail[c] = 0]
    ELSE blockStart(Finish(h1, c, "error"), rateLim)

\* sendReqCatch with a fault: when the backoff stops, the queue is emptied and
\* every request waiting in it is rejected with the error that is rethrown
sendReqCatchFlush(h, c) ==
    LET w == getBackoff(h.attemptNr[c])
        h1 == [h EXCEPT !.failures = @ + 1,
                        !.queried[c] = Append(@, h.attemptNr[c])]
        waiting == {h.queue[i] : i \in 1..Len(h.queue)}
        e == [kind |-> "error", of |-> c, attempt |-> h.attemptNr[c]] IN
    IF Truthy(w)
    THEN [blockStart(h1, rateLim) EXCEPT !.held[c] = @ + 1,
                                         !.phase[c] = "backoff",
                                         !.wait[c] = w,
                                         !.waited[c] = 0,
                                         !.sinceFail[c] = 0]
    ELSE [Finish(h1, c, "error") EXCEPT
            !.queue = <<>>,
            !.phase = [d \in Calls |-> IF d \in waiting THEN "rejected" ELSE @[d]],
            !.result = [d \in Calls |-> IF d \in waiting THEN e ELSE @[d]],
            !.settles = [d \in Calls |-> IF d \in waiting THEN @[d] + 1 ELSE @[d]]]

\* the catch block of sendReq, lines 80-94
sendReqCatch(h, c) ==
    LET w == getBackoff(h.attemptNr[c])
        h1 == [h EXCEPT !.failures = @ + 1,
                        !.queried[c] = Append(@, h.attemptNr[c])] IN
    IF Truthy(w)
    THEN [blockStart(h1, rateLim) EXCEPT !.held[c] = @ + 1,
                                         !.phase[c] = "backoff",
                                         !.wait[c] = w,
                                         !.waited[c] = 0,
                                         !.sinceFail[c] = 0]
    ELSE Finish(h1, c, "error")

\* sendReq(request, n) up to its first await, lines 75-79.  thr is the set of
\* calls whose function throws synchronously when invoked here: request() at
\* line 77 then jumps to the catch block and line 78 is not reached.
sendReq(h, c, n, thr) ==
    LET h1 == [h EXCEPT !.calls[c] = @ + 1,
                        !.attemptNr[c] = n,
                        !.waitedTotal[c] = IF n = 0 THEN 0 ELSE @ + h.sinceFail[c],
                        !.started = IF n = 0 THEN Append(@, c) ELSE @,
                        !.admitAge[c] = IF n = 0 THEN 0 ELSE @] IN
    IF c \in thr
    THEN sendReqCatch(h1, c)
    ELSE [blockStart(h1, 1) EXCEPT !.slots[0] = @ + 1, !.phase[c] = "running"]

\* checkQueue with a fault: the entry behind the admitted one is removed from
\* the queue as well
RECURSIVE checkQueueSkip(_, _)
checkQueueSkip(h, thr) ==
    IF HasRoom(h.requestsLastPeriod) /\ Len(h.queue) > 0
    THEN checkQueueSkip(sendReq([h EXCEPT !.queue = Tail(IF Len(@) > 1 THEN Tail(@) ELSE @)],
                                Head(h.queue), 0, thr), thr)
    ELSE h

\* checkQueue with a fault: `if` for `while`, only the head is admitted
checkQueueOnce(h, thr) ==
    IF HasRoom(h.requestsLastPeriod) /\ Len(h.queue) > 0
    THEN sendReq([h EXCEPT !.queue = Tail(@)], Head(h.queue), 0, thr)
    ELSE h

\* checkQueue, lines 110-116
RECURSIVE checkQueue(_, _)
checkQueue(h, thr) ==
    IF HasRoom(h.requestsLastPeriod) /\ Len(h.queue) > 0
    THEN checkQueue(sendReq([h EXCEPT !.queue = Tail(@)], Head(h.queue), 0, thr), thr)
    ELSE h

\* blockEnd with a fault: the queue is checked but the amount is not given back
blockEndKeep(h, amount, thr) ==
    checkQueue(h, thr)

\* blockEnd with a fault: the amount is ignored, one slot is given back
blockEndOne(h, amount, thr) ==
    checkQueue([h EXCEPT !.requestsLastPeriod = @ - 1], thr)

\* blockEnd with a fault: the slot is given back but the queue is not checked
blockEndNoDrain(h, amount, thr) ==
    [h EXCEPT !.requestsLastPeriod = @ - amount]

\* the finally block of blockRequests, lines 102-105
blockEnd(h, amount, thr) ==
    checkQueue([h EXCEPT !.requestsLastPeriod = @ - amount], thr)

\* sendQueue with a fault: the request is put at the head of the queue
sendQueueFront(q, c) == <<c>> \o q

\* sendQueue, lines 59-72
sendQueue(q, c) == Append(q, c)

Min(a, b) == IF a < b THEN a ELSE b

Range(q) == {q[i] : i \in 1..Len(q)}

\* Promise continuations (microtasks) are pending: they run before any timer
\* callback.  timeout(0) sets no timer (line 9), so with periodLength = 0 a slot
\* release is such a continuation.
MicrotaskPending ==
    \/ periodLength = 0 /\ slots[0] > 0
    \/ \E c \in Calls : phase[c] = "unwind"

\* ---- initial state: the constructor, lines 31-46, called with r as its
\* rateLim argument, and the field initialisers, lines 26 and 28 ----
NoDelay ==
    [pc |-> "idle", waitTime |-> 0, now |-> 0, armedAt |-> 0, armedFor |-> 0,
     fires |-> 0]

Constructed(r) ==
    /\ delay = NoDelay
    /\ rateLim = Coerce(r)
    /\ periodLength \in 0..MaxPeriod
    /\ backoff \in BackoffArgs
    /\ requestsLastPeriod = 0
    /\ queue = <<>>
    /\ phase = [c \in Calls |-> "idle"]
    /\ attemptNr = [c \in Calls |-> 0]
    /\ held = [c \in Calls |-> 0]
    /\ wait = [c \in Calls |-> 0]
    /\ waited = [c \in Calls |-> 0]
    /\ slots = [a \in 0..periodLength |-> 0]
    /\ submitted = 0
    /\ calls = [c \in Calls |-> 0]
    /\ started = <<>>
    /\ enqueued = <<>>
    /\ result = [c \in Calls |-> NoResult]
    /\ settles = [c \in Calls |-> 0]
    /\ admitAge = [c \in Calls |-> periodLength + 1]
    /\ sinceFail = [c \in Calls |-> 0]
    /\ waitedTotal = [c \in Calls |-> 0]
    /\ failures = 0
    /\ queried = [c \in Calls |-> <<>>]

Init == \E r \in 0..MaxRateLim : Constructed(r)

\* call with a fault: a request is admitted also when the counter has just
\* reached rateLim
callInclusive(throws) ==
    /\ submitted < NumCalls
    /\ LET c == submitted + 1 IN
        /\ submitted' = c
        /\ IF requestsLastPeriod <= rateLim
           THEN /\ Install(sendReq(H, c, 0, IF throws THEN {c} ELSE {}))
                /\ enqueued' = enqueued
           ELSE /\ ~throws
                /\ Install([H EXCEPT !.queue = sendQueue(@, c), !.phase[c] = "queued"])
                /\ enqueued' = Append(enqueued, c)
    /\ UNCHANGED config

\* call with a fault: an admitted request is put into the queue as well
callBoth(throws) ==
    /\ submitted < NumCalls
    /\ LET c == submitted + 1 IN
        /\ submitted' = c
        /\ IF HasRoom(requestsLastPeriod)
           THEN /\ Install([sendReq(H, c, 0, IF throws THEN {c} ELSE {})
                                EXCEPT !.queue = sendQueue(@, c)])
                /\ enqueued' = Append(enqueued, c)
           ELSE /\ ~throws
                /\ Install([H EXCEPT !.queue = sendQueue(@, c), !.phase[c] = "queued"])
                /\ enqueued' = Append(enqueued, c)
    /\ UNCHANGED config

\* call(func), lines 49-56; throws: func throws synchronously when invoked
call(throws) ==
    /\ submitted < NumCalls
    /\ LET c == submitted + 1 IN
        /\ submitted' = c
        /\ IF HasRoom(requestsLastPeriod)
           THEN /\ Install(sendReq(H, c, 0, IF throws THEN {c} ELSE {}))
                /\ enqueued' = enqueued
           ELSE /\ ~throws
                /\ Install([H EXCEPT !.queue = sendQueue(@, c), !.phase[c] = "queued"])
                /\ enqueued' = Append(enqueued, c)
    /\ UNCHANGED config

\* the awaited reqPromise fulfils: line 79 returns its value
opResolve(c) ==
    /\ phase[c] = "running"
    /\ Install(Finish(H, c, "value"))
    /\ UNCHANGED <<config, submitted, enqueued>>

\* the awaited reqPromise rejects: line 79 throws into the catch block
opReject(c) ==
    /\ phase[c] = "running"
    /\ Install(sendReqCatch(H, c))
    /\ UNCHANGED <<config, submitted, enqueued>>

\* backoffDone with a fault: the retry is started with the attempt number of
\* the attempt that failed
backoffDoneSameIndex(c, throws) ==
    /\ phase[c] = "backoff"
    /\ TimeoutDone(wait[c], waited[c])
    /\ ~MicrotaskPending
    /\ Install(sendReq(H, c, attemptNr[c], IF throws THEN {c} ELSE {}))
    /\ UNCHANGED <<config, submitted, enqueued>>

\* backoffDone with a fault: the containment covers the wait only; it is given
\* back when the wait is over, before the operation is invoked again
backoffDoneRelease(c, throws) ==
    /\ phase[c] = "backoff"
    /\ TimeoutDone(wait[c], waited[c])
    /\ ~MicrotaskPending
    /\ Install(sendReq(blockEnd([H EXCEPT !.held[c] = @ - 1], rateLim, {}),
                       c, attemptNr[c] + 1, IF throws THEN {c} ELSE {}))
    /\ UNCHANGED <<config, submitted, enqueued>>

\* the backoff timeout(wait, ...) is over: line 17 calls the function of
\* line 87, sendReq(request, attemptNr + 1)
backoffDone(c, throws) ==
    /\ phase[c] = "backoff"
    /\ TimeoutDone(wait[c], waited[c])
    /\ ~MicrotaskPending
    /\ Install(sendReq(H, c, attemptNr[c] + 1, IF throws THEN {c} ELSE {}))
    /\ UNCHANGED <<config, submitted, enqueued>>

\* releaseSlot with a fault: the slot is given back only when no invoked
\* operation is pending any more
releaseSlotSettled(a, thr) ==
    /\ slots[a] > 0
    /\ TimeoutDone(periodLength, a)
    /\ periodLength > 0 => ~MicrotaskPending
    /\ \A c \in Calls : phase[c] # "running"
    /\ Install(blockEnd([H EXCEPT !.slots[a] = @ - 1], 1, thr))
    /\ UNCHANGED <<config, submitted, enqueued>>

\* a blockRequests(timeout(periodLength)) resumes: lines 102-105 with amount 1
releaseSlot(a, thr) ==
    /\ slots[a] > 0
    /\ TimeoutDone(periodLength, a)
    /\ periodLength > 0 => ~MicrotaskPending
    /\ Install(blockEnd([H EXCEPT !.slots[a] = @ - 1], 1, thr))
    /\ UNCHANGED <<config, submitted, enqueued>>

\* a blockRequests(result, rateLim) of call c resumes after the retry it awaits
\* has settled: lines 102-105 with amount rateLim.  After the outermost one,
\* line 89 passes the outcome on to the promise call() returned.
releaseBlock(c, thr) ==
    /\ phase[c] = "unwind"
    /\ LET h == blockEnd([H EXCEPT !.held[c] = @ - 1], rateLim, thr) IN
        IF h.held[c] = 0
        THEN Install([h EXCEPT !.phase[c] = IF h.result[c].kind = "value"
                                            THEN "resolved" ELSE "rejected",
                               !.settles[c] = @ + 1])
        ELSE Install(h)
    /\ UNCHANGED <<config, submitted, enqueued>>

\* A timeout() whose time is up: its timer callback runs before the clock
\* advances further.
TimerDue ==
    \/ \E a \in 0..periodLength : slots[a] > 0 /\ TimeoutDone(periodLength, a)
    \/ \E c \in Calls : phase[c] = "backoff" /\ TimeoutDone(wait[c], waited[c])

\* tick with a fault: time passes although a promise continuation or a due
\* timer callback is waiting to run
tickAnytime ==
    /\ slots' = [a \in 0..periodLength |->
                    IF periodLength = 0 THEN slots[a]
                    ELSE IF a = 0 THEN 0
                    ELSE IF a = periodLength THEN slots[a] + slots[a - 1]
                    ELSE slots[a - 1]]
    /\ waited' = [c \in Calls |->
                    IF phase[c] = "backoff" THEN Min(waited[c] + 1, wait[c]) ELSE waited[c]]
    /\ sinceFail' = [c \in Calls |->
                    IF phase[c] = "backoff" THEN Min(sinceFail[c] + 1, wait[c]) ELSE sinceFail[c]]
    /\ admitAge' = [c \in Calls |-> Min(admitAge[c] + 1, periodLength + 1)]
    /\ UNCHANGED <<config, requestsLastPeriod, queue, phase, attemptNr, held, wait,
                   submitted, calls, started, enqueued, result, settles, waitedTotal,
                   failures, queried>>

\* one unit of time passes (Date.now() grows by one)
tick ==
    /\ ~MicrotaskPending
    /\ ~TimerDue
    /\ slots' = [a \in 0..periodLength |->
                    IF periodLength = 0 THEN slots[a]
                    ELSE IF a = 0 THEN 0
                    ELSE IF a = periodLength THEN slots[a] + slots[a - 1]
                    ELSE slots[a - 1]]
    /\ waited' = [c \in Calls |->
                    IF phase[c] = "backoff" THEN Min(waited[c] + 1, wait[c]) ELSE waited[c]]
    /\ sinceFail' = [c \in Calls |->
                    IF phase[c] = "backoff" THEN Min(sinceFail[c] + 1, wait[c]) ELSE sinceFail[c]]
    /\ admitAge' = [c \in Calls |-> Min(admitAge[c] + 1, periodLength + 1)]
    /\ UNCHANGED <<config, requestsLastPeriod, queue, phase, attemptNr, held, wait,
                   submitted, calls, started, enqueued, result, settles, waitedTotal,
                   failures, queried>>

\* One unit of time passes although a timer is due: setTimeout guarantees no
\* latest moment for its callback, so the callback of a timer whose time is up
\* may still be waiting when the clock goes on.
tickLate ==
    /\ ~MicrotaskPending
    /\ slots' = [a \in 0..periodLength |->
                    IF periodLength = 0 THEN slots[a]
                    ELSE IF a = 0 THEN 0
                    ELSE IF a = periodLength THEN slots[a] + slots[a - 1]
                    ELSE slots[a - 1]]
    /\ waited' = [c \in Calls |->
                    IF phase[c] = "backoff" THEN Min(waited[c] + 1, wait[c]) ELSE waited[c]]
    /\ sinceFail' = [c \in Calls |->
                    IF phase[c] = "backoff" THEN Min(sinceFail[c] + 1, wait[c]) ELSE sinceFail[c]]
    /\ admitAge' = [c \in Calls |-> Min(admitAge[c] + 1, periodLength + 1)]
    /\ UNCHANGED <<config, requestsLastPeriod, queue, phase, attemptNr, held, wait,
                   submitted, calls, started, enqueued, result, settles, waitedTotal,
                   failures, queried>>

Next ==
    \/ \E throws \in BOOLEAN : call(throws)
    \/ \E c \in Calls : opResolve(c)
    \/ \E c \in Calls : opReject(c)
    \/ \E c \in Calls, throws \in BOOLEAN : backoffDone(c, throws)
    \/ \E a \in 0..periodLength, thr \in SUBSET Range(queue) : releaseSlot(a, thr)
    \/ \E c \in Calls, thr \in SUBSET Range(queue) : releaseBlock(c, thr)
    \/ tick

Spec == Init /\ [][Next]_vars

\* Runs in which no operation fails: every function returns a promise that
\* fulfils.
NextNoFail ==
    \/ call(FALSE)
    \/ \E c \in Calls : opResolve(c)
    \/ \E a \in 0..periodLength : releaseSlot(a, {})
    \/ tick

InitNoFail == Init /\ backoff = [kind |-> "count", k |-> 0, w |-> 0]

SpecNoFail == InitNoFail /\ [][NextNoFail]_vars

\* Failure-free runs in which timer callbacks may run late.
NextNoFailLate ==
    \/ call(FALSE)
    \/ \E c \in Calls : opResolve(c)
    \/ \E a \in 0..periodLength : releaseSlot(a, {})
    \/ tickLate

SpecNoFailLate == InitNoFail /\ [][NextNoFailLate]_vars

\* Failure-free runs of a handler constructed with a rateLim argument below 1.
InitBelowOne ==
    /\ \E r \in (0 - MaxBelowOne)..0 : Constructed(r)
    /\ backoff = [kind |-> "count", k |-> 0, w |-> 0]

SpecBelowOne == InitBelowOne /\ [][NextNoFail]_vars

\* ---- timeout(waitTime), lines 8-18, on its own.  delay.now is Date.now()
\* counted from the call, so startTime (line 10) is 0.  The timer set by
\* setTimeout may fire at any moment after it was set, before the requested
\* time as well as up to MaxLate after it. ----

\* timeout(d) is called: lines 9-13 up to the first await; with d = 0 the loop
\* is skipped and line 17 is reached at once
timeout(d) ==
    /\ delay.pc = "idle"
    /\ delay' = IF d > 0
                THEN [delay EXCEPT !.pc = "armed", !.waitTime = d, !.armedAt = 0,
                                   !.armedFor = d - 0]
                ELSE [delay EXCEPT !.pc = "done", !.waitTime = d]
    /\ UNCHANGED <<rateLim, periodLength, backoff, handler, history>>

\* timeoutResume with a fault: the timer is trusted, line 17 is reached when it
\* fires for the first time
timeoutResumeOnce ==
    /\ delay.pc = "armed"
    /\ delay.fires < MaxFirings
    /\ delay' = [delay EXCEPT !.pc = "done", !.fires = @ + 1]
    /\ UNCHANGED <<rateLim, periodLength, backoff, handler, history>>

\* the timer fires and the loop body goes on: delta is read (line 14), and
\* the loop either sets a new timer for waitTime - delta (lines 15 and 13) or
\* is left, so that line 17 runs
timeoutResume ==
    /\ delay.pc = "armed"
    /\ delay.fires < MaxFirings
    /\ LET delta == delay.now - 0 IN
        delay' = IF TimeoutDone(delay.waitTime, delta)
                 THEN [delay EXCEPT !.pc = "done", !.fires = @ + 1]
                 ELSE [delay EXCEPT !.armedAt = delay.now,
                                    !.armedFor = delay.waitTime - delta,
                                    !.fires = @ + 1]
    /\ UNCHANGED <<rateLim, periodLength, backoff, handler, history>>

\* one unit of time passes while the timer is set
timeoutTick ==
    /\ delay.pc = "armed"
    /\ delay.now < delay.armedAt + delay.armedFor + MaxLate
    /\ delay' = [delay EXCEPT !.now = @ + 1]
    /\ UNCHANGED <<rateLim, periodLength, backoff, handler, history>>

NextTimeout ==
    \/ \E d \in 0..MaxDelay : timeout(d)
    \/ timeoutResume
    \/ timeoutTick

InitTimeout ==
    /\ Constructed(1)
    /\ periodLength = 0
    /\ backoff = [kind |-> "count", k |-> 0, w |-> 0]

SpecTimeout == InitTimeout /\ [][NextTimeout]_vars

\* What happens without the client: an invoked operation settles, a promise
\* continuation or a due timer callback runs, time passes.
Progress ==
    \/ \E c \in Calls : opResolve(c)
    \/ \E c \in Calls : opReject(c)
    \/ \E c \in Calls, throws \in BOOLEAN : backoffDone(c, throws)
    \/ \E a \in 0..periodLength, thr \in SUBSET Range(queue) : releaseSlot(a, thr)
    \/ \E c \in Calls, thr \in SUBSET Range(queue) : releaseBlock(c, thr)
    \/ tick

\* The event loop does not stop while an operation is pending, a continuation
\* or a timer callback is due, or time can pass; which of them comes next is
\* not constrained.
Fairness == WF_vars(Progress)

\* Termination does not depend on the time scale: the fair runs are checked
\* for the period lengths 0 and 1.
InitFair == Init /\ periodLength <= 1

FairSpec == InitFair /\ [][Next]_vars /\ Fairness

\* ======================= the claims =======================

IsPrefix(p, q) == Len(p) <= Len(q) /\ p = SubSeq(q, 1, Len(p))

Settled(c) == phase[c] \in {"resolved", "rejected"}

\* C1: call(op) is a pure capacity check.  If requestsLastPeriod < rateLim at
\* the moment of the call, op is invoked as part of that call and the queue is
\* left unchanged; otherwise op is not invoked, exactly one entry for it is
\* appended at the tail of the queue, and requestsLastPeriod is left unchanged.
\* No other call's operation is invoked by the step.
C1_CallIsCapacityCheck ==
    [][submitted' = submitted + 1 =>
        LET c == submitted' IN
        /\ \A d \in Calls \ {c} : calls'[d] = calls[d]
        /\ IF requestsLastPeriod < rateLim
           THEN calls'[c] = 1 /\ started' = Append(started, c) /\ queue' = queue
           ELSE /\ calls'[c] = 0
                /\ started' = started
                /\ queue' = Append(queue, c)
                /\ requestsLastPeriod' = requestsLastPeriod]_vars

\* C1 witness: one call was admitted at the gate and a later one, arriving
\* with the capacity used up, waits in the queue.
C1_Witness ==
    /\ Len(started) > 0
    /\ Len(queue) > 0
    /\ requestsLastPeriod >= rateLim
    /\ calls[queue[Len(queue)]] = 0

\* the calls first invoked less than periodLength ago
InWindow == {c \in Calls : calls[c] > 0 /\ admitAge[c] < periodLength}

\* C2: in a run in which no operation fails, with periodLength > 0, at no
\* moment have more than rateLim first invocations happened within the last
\* periodLength time units, i.e. no window of length periodLength holds more
\* than rateLim admissions.
C2_RateLimitWindow ==
    periodLength > 0 => Cardinality(InWindow) <= rateLim

\* C2 witness: more calls than the limit were made, the window is full and a
\* call that had to queue has been admitted later.
C2_Witness ==
    /\ periodLength > 1
    /\ Cardinality(InWindow) = rateLim
    /\ Len(enqueued) > 0
    /\ Len(started) = NumCalls
    /\ \E c \in Calls : admitAge[c] = 1

\* Call c is in a retry chain: its backoff policy has returned a wait and the
\* chain's last attempt has not settled yet.
InChain(c) ==
    \/ phase[c] = "backoff"
    \/ phase[c] = "running" /\ held[c] > 0

\* C3 as stated: while a call is in its retry chain, no other call is admitted
\* and only that call's own retries invoke an operation, also when several
\* calls are in backoff at the same time.
C3_OnlyOwnRetries ==
    [][\A c \in Calls : InChain(c) =>
            /\ started' = started
            /\ \A d \in Calls \ {c} : calls'[d] = calls[d]]_vars

\* C3 as amended: while some call is in its retry chain, no call is admitted
\* (no first invocation, neither at the gate nor by a drain); the only
\* operations invoked are retries of calls whose backoff wait is over, i.e.
\* the failing call's own retries and those of other calls in backoff.
C3_NoAdmissionDuringBackoff ==
    [][(\E c \in Calls : InChain(c)) =>
            /\ started' = started
            /\ \A d \in Calls : calls'[d] # calls[d] =>
                    /\ phase[d] = "backoff"
                    /\ calls'[d] = calls[d] + 1
                    /\ attemptNr'[d] = attemptNr[d] + 1]_vars

\* C3 witness: a call is retrying while another call is queued and a third
\* one is in backoff as well.
C3_Witness ==
    \E c, d, e \in Calls :
        /\ c # d
        /\ phase[c] = "running" /\ held[c] > 0 /\ attemptNr[c] > 0
        /\ phase[d] = "backoff"
        /\ phase[e] = "queued"

\* the calls that went through the queue, in the order of their first invocation
StartedFromQueue == SelectSeq(started, LAMBDA c : c \in Range(enqueued))

\* C4: queued calls are admitted in FIFO order: the order in which queued
\* calls are first invoked is the order in which they were enqueued.
C4_QueueIsFifo ==
    IsPrefix(StartedFromQueue, enqueued)

\* C4 witness: two calls were queued behind a call that failed and was
\* retried, and both have been invoked.
C4_Witness ==
    /\ Len(enqueued) >= 2
    /\ Len(StartedFromQueue) = Len(enqueued)
    /\ failures > 0
    /\ \E c \in Calls : attemptNr[c] > 0

\* C5: every call submitted through call() eventually settles, whether it was
\* admitted at once or queued, given that every invoked operation eventually
\* settles, timers eventually fire and the backoff policy eventually stops.
C5_EveryCallSettles ==
    \A c \in Calls : (phase[c] # "idle") ~> Settled(c)

\* C5 witness: a call that had to queue behind a failing, retried call has
\* settled, and so has the retried call.
C5_Witness ==
    \E c, d \in Calls :
        /\ c \in Range(enqueued) /\ Settled(c)
        /\ calls[d] > 1 /\ Settled(d)

\* C6: the promise returned by call() is settled exactly once, resolved or
\* rejected, however many retries there were and whether the call was admitted
\* at once or went through the queue.
C6_SettledOnce ==
    \A c \in Calls :
        /\ settles[c] <= 1
        /\ Settled(c) <=> settles[c] = 1
        /\ phase[c] = "resolved" => result[c].kind = "value"
        /\ phase[c] = "rejected" => result[c].kind = "error"

\* C6 witness: a call that went through the queue and was retried has
\* settled, and so has a retried call that was admitted at once.
C6_Witness ==
    \E c, d \in Calls :
        /\ c \in Range(enqueued) /\ calls[c] > 1 /\ settles[c] = 1
        /\ d \notin Range(enqueued) /\ calls[d] > 1 /\ settles[d] = 1

\* C7: with an integer backoff k and periodLength > 0, a call is never invoked
\* more than k + 1 times, it is retried as long as fewer than k + 1 attempts
\* have failed, and when it rejects its operation has been invoked exactly
\* k + 1 times (exactly once for k = 0).
C7_RetryCount ==
    (backoff.kind = "count" /\ periodLength > 0) =>
        \A c \in Calls :
            /\ calls[c] <= backoff.k + 1
            /\ phase[c] = "backoff" => calls[c] <= backoff.k
            /\ result[c].kind = "error" => calls[c] = backoff.k + 1
            /\ phase[c] = "rejected" => calls[c] = backoff.k + 1

\* C7 witness: with the largest retry count an always failing call has been
\* rejected after k + 1 invocations.
C7_Witness ==
    /\ backoff.kind = "count" /\ backoff.k = MaxRetries /\ periodLength > 0
    /\ \E c \in Calls : phase[c] = "rejected" /\ calls[c] = backoff.k + 1

\* C8: under the default policy with retry count k, attempt i + 1 is invoked
\* no earlier than periodLength * 2^i after the failure of attempt i, so a
\* call that rejects has waited at least periodLength * (2^k - 1) since it was
\* submitted; with k = 0 there is no backoff wait at all.
C8_DefaultBackoffWaits ==
    backoff.kind = "count" =>
        \A c \in Calls :
            /\ (phase[c] = "running" /\ attemptNr[c] > 0) =>
                    sinceFail[c] >= periodLength * Pow2(attemptNr[c] - 1)
            /\ calls[c] > 0 => waitedTotal[c] >= periodLength * (Pow2(attemptNr[c]) - 1)
            /\ (phase[c] = "rejected" /\ periodLength > 0) =>
                    waitedTotal[c] >= periodLength * (Pow2(backoff.k) - 1)
            /\ backoff.k = 0 =>
                    held[c] = 0 /\ phase[c] # "backoff" /\ waitedTotal[c] = 0

\* C8 witness: with the largest retry count and period a call has been
\* rejected after all its retries.
C8_Witness ==
    /\ backoff.kind = "count" /\ backoff.k = MaxRetries /\ periodLength = MaxPeriod
    /\ \E c \in Calls :
        /\ phase[c] = "rejected"
        /\ waitedTotal[c] = periodLength * (Pow2(backoff.k) - 1)

\* C9: with a custom backoff function that returns a fixed wait w > 0 for the
\* first failure and undefined afterwards, a call whose first attempt fails
\* gets exactly 2 attempts, the second no earlier than w after the first
\* failure; it resolves with the second attempt's value if that attempt
\* succeeds and rejects otherwise.
C9_CustomBackoffOnce ==
    backoff.kind = "fn" =>
        \A c \in Calls :
            /\ calls[c] <= 2
            /\ phase[c] = "backoff" => calls[c] = 1
            /\ calls[c] = 2 => attemptNr[c] = 1 /\ waitedTotal[c] >= backoff.w
            /\ result[c].kind = "error" => calls[c] = 2
            /\ (Settled(c) /\ held[c] + attemptNr[c] > 0) =>
                    /\ calls[c] = 2
                    /\ result[c].of = c /\ result[c].attempt = 1
                    /\ phase[c] = "resolved" <=> result[c].kind = "value"

\* C9 witness: a call failed once, waited w = MaxWait and was resolved by its
\* second attempt, while another call was rejected by its second attempt.
C9_Witness ==
    /\ backoff.kind = "fn" /\ backoff.w = MaxWait
    /\ \E c, d \in Calls :
        /\ phase[c] = "resolved" /\ calls[c] = 2
        /\ phase[d] = "rejected" /\ calls[d] = 2

\* C10: a call whose operation succeeds when first invoked resolves with that
\* invocation's return value and its operation is invoked exactly once,
\* whether the call was admitted at once or waited in the queue.
C10_SuccessInvokedOnce ==
    \A c \in Calls :
        /\ (phase[c] = "running" /\ attemptNr[c] = 0) => calls[c] = 1
        /\ (result[c].kind = "value" /\ result[c].attempt = 0) =>
                /\ calls[c] = 1
                /\ phase[c] = "resolved"
                /\ result[c].of = c

\* C10 witness: a call admitted at once and a call that waited in the queue
\* have both been resolved by their only invocation.
C10_Witness ==
    \E c, d \in Calls :
        /\ c \in Range(enqueued) /\ d \notin Range(enqueued)
        /\ phase[c] = "resolved" /\ calls[c] = 1
        /\ phase[d] = "resolved" /\ calls[d] = 1

\* the error thrown by attempt n of call c
ErrorOf(c, n) == [kind |-> "error", of |-> c, attempt |-> n]

\* C11: when a call finally fails, the error its promise rejects with is the
\* error of that call's final attempt, the same value: not wrapped, not the
\* error of an earlier attempt, not dropped.  This holds for calls admitted at
\* once and for calls that went through the queue.
C11_RejectsWithFinalError ==
    \A c \in Calls :
        /\ phase[c] = "rejected" => result[c] = ErrorOf(c, calls[c] - 1)
        /\ result[c].kind = "error" =>
                /\ phase[c] \in {"unwind", "rejected"}
                /\ result[c] = ErrorOf(c, calls[c] - 1)

\* C11 witness: a call that went through the queue was retried and has been
\* rejected with the error of its last attempt, after a call admitted at once
\* had failed too.
C11_Witness ==
    \E c, d \in Calls :
        /\ c \in Range(enqueued) /\ d \notin Range(enqueued)
        /\ phase[c] = "rejected" /\ calls[c] > 1
        /\ result[c] = ErrorOf(c, calls[c] - 1)
        /\ calls[d] > 1

\* the value returned by attempt n of call c
ValueOf(c, n) == [kind |-> "value", of |-> c, attempt |-> n]

C13_QueueFlushedOnRethrow ==
    [][\A c \in Calls :
            (/\ periodLength > 0
             /\ attemptNr[c] > 0
             /\ result[c].kind # "error" /\ result'[c].kind = "error") =>
                /\ queue' = <<>>
                /\ \A d \in Range(queue) :
                        phase'[d] = "rejected" /\ result'[d] = result'[c]]_vars

RECURSIVE SumOver(_, _)
SumOver(f, S) ==
    IF S = {} THEN 0
    ELSE LET x == CHOOSE y \in S : TRUE IN f[x] + SumOver(f, S \ {x})

\* the blockRequests(timeout(periodLength)) calls that have not resumed yet
PendingSlots == SumOver(slots, DOMAIN slots)

\* the blockRequests(result, rateLim) calls that have not resumed yet
PendingBlocks == SumOver(held, Calls)

\* C14: requestsLastPeriod is never negative, and every increment (1 at an
\* admission, rateLim at a containment) is taken back exactly once, by the
\* same amount, also when the awaited operation or retry chain fails: the
\* counter is always the sum of the amounts of the blockRequests calls that
\* have not resumed yet, so it is 0 again once none is pending.
C14_CounterBalanced ==
    /\ requestsLastPeriod >= 0
    /\ requestsLastPeriod = PendingSlots + rateLim * PendingBlocks
    /\ (PendingSlots = 0 /\ PendingBlocks = 0) => requestsLastPeriod = 0

\* C14 witness: all calls have settled, one of them rejected after a retry
\* chain that failed, every release has run and the counter is back at 0.
C14_Witness ==
    /\ submitted = NumCalls
    /\ \A c \in Calls : Settled(c)
    /\ \E c \in Calls : phase[c] = "rejected" /\ calls[c] > 1
    /\ rateLim > 1
    /\ PendingSlots = 0
    /\ requestsLastPeriod = 0

\* the number of invocations of operations made by the step
Invocations == SumOver([c \in Calls |-> calls'[c] - calls[c]], Calls)

\* C15 as stated: every admission, at the gate or by a drain, and every retry
\* attempt takes one slot whose release is scheduled periodLength later, in
\* every way the attempt can fail, an operation that throws synchronously
\* included: a step that invokes n operations leaves n more releases pending
\* that were scheduled at this instant.  The case looked at is
\* periodLength > 0, where a release scheduled now cannot run in the same step.
C15_EveryAttemptTakesSlot ==
    [][(periodLength > 0 /\ Invocations > 0) =>
            slots'[0] = slots[0] + Invocations]_vars

\* the number of attempts the backoff argument prescribes for a call whose
\* operation always fails
PrescribedAttempts == IF backoff.kind = "count" THEN backoff.k + 1 ELSE 2

\* C16 as stated: with periodLength = 0 the retries still apply: a call is
\* rejected only after the attempts its backoff argument prescribes, so with a
\* retry count k an operation that always fails has been invoked k + 1 times
\* when the error is propagated.
C16_RetriesWithoutPeriod ==
    periodLength = 0 =>
        \A c \in Calls : phase[c] = "rejected" => calls[c] = PrescribedAttempts

\* the calls that were submitted and whose operation has not been invoked yet
Waiting == {c \in 1..submitted : calls[c] = 0}

\* C17: with periodLength = 0 and no failures no call waits for time to pass
\* before it is admitted: a slot is given back without a timer, so while a
\* submitted call has not been invoked yet the clock cannot advance, it is in
\* the queue and a release that will drain the queue is pending as a promise
\* continuation.  Every operation is invoked at the clock value at which its
\* call was submitted, for any rateLim.
C17_NoWaitWithoutPeriod ==
    periodLength = 0 =>
        /\ Waiting = Range(queue)
        /\ Waiting # {} => ~ENABLED tick /\ PendingSlots > 0

\* C17 witness: with periodLength = 0 and rateLim = 1 three calls were made
\* in one synchronous run; two of them had to queue and all three have been
\* invoked without the clock advancing.
C17_Witness ==
    /\ periodLength = 0 /\ rateLim = 1
    /\ Len(enqueued) = NumCalls - 1
    /\ Len(started) = NumCalls
    /\ ENABLED tick

\* C18: a handler constructed with rateLim < 1 behaves like one constructed
\* with rateLim = 1: it is in the state of a handler constructed with 1, its
\* first call is admitted at once instead of waiting in the queue forever, and
\* at most one slot is available per period.
C18_BelowOneIsOne ==
    /\ rateLim = Coerce(1)
    /\ submitted >= 1 => calls[1] = 1 /\ 1 \notin Range(enqueued)
    /\ requestsLastPeriod <= 1
    /\ periodLength > 0 => Cardinality(InWindow) <= 1

\* C18 witness: all calls were made to a handler constructed with
\* rateLim < 1 and periodLength > 0; the first was admitted at once, the
\* others had to queue and have been admitted one per period.
C18_Witness ==
    /\ periodLength > 0
    /\ calls[1] = 1
    /\ Len(enqueued) = NumCalls - 1
    /\ Len(started) = NumCalls
    /\ Cardinality(InWindow) = 1

\* C19: timeout(d) never reaches its continuation before d time units have
\* passed since it was called, for any d, however often the timer fires
\* before the requested time: as long as the time passed is below d a timer
\* for the remaining time is set.
C19_TimeoutNeverEarly ==
    /\ delay.pc = "done" => delay.now >= delay.waitTime
    /\ delay.pc = "armed" =>
            /\ delay.armedAt < delay.waitTime
            /\ delay.armedFor = delay.waitTime - delay.armedAt

\* C19 witness: the longest delay was asked for, the timer fired before the
\* requested time more than once, and the continuation ran when the time was
\* up.
C19_Witness ==
    /\ delay.pc = "done"
    /\ delay.waitTime = MaxDelay
    /\ delay.fires >= 3
    /\ delay.now = delay.waitTime

\* the calls first invoked within the last periodLength time units
RecentlyAdmitted == {c \in Calls : calls[c] > 0 /\ admitAge[c] <= periodLength}

\* the slots that are held: those of the calls first invoked less than
\* periodLength ago, and those whose release is due and has not run yet
HeldSlots == Cardinality(InWindow) + slots[periodLength]

\* the step is a call() whose operation is invoked at once and which is not
\* put into the queue
AdmittedAtOnce ==
    /\ calls'[submitted'] = 1
    /\ queue' = queue
    /\ enqueued' = enqueued

\* C20 as stated: in a run without failures a call is admitted at once and
\* not queued if at most rateLim calls are made in total, or if fewer than
\* rateLim admissions happened within the preceding periodLength.
C20_AdmittedWhileWindowFree ==
    [][(/\ submitted' = submitted + 1
        /\ \/ submitted' <= rateLim
           \/ Cardinality(RecentlyAdmitted) < rateLim) => AdmittedAtOnce]_vars

\* C20 as amended: in a run without failures a call is admitted at once and
\* not queued if at most rateLim calls are made in total, or if fewer than
\* rateLim slots are held when it is made; a slot is held from the admission
\* until its release has run, which is periodLength later or, when the timer
\* callback is late, later than that.
C20_AdmittedWhileSlotFree ==
    [][(/\ submitted' = submitted + 1
        /\ \/ submitted' <= rateLim
           \/ HeldSlots < rateLim) => AdmittedAtOnce]_vars

\* C20 witness: with rateLim = 2 all calls were admitted at once and nothing
\* was ever queued; the last call was made when the first one's slot had been
\* given back, while the slot of the second one was still held.
C20_Witness ==
    /\ rateLim = 2 /\ periodLength = MaxPeriod
    /\ Len(started) = NumCalls
    /\ enqueued = <<>>
    /\ admitAge[1] > periodLength
    /\ admitAge[3] = 0
    /\ Cardinality(InWindow) = 2

\* C21: after every step of the handler (a call, a release with its drain, the
\* handling of a failure) the queue is empty or the capacity is used up:
\* requestsLastPeriod >= rateLim.  A call is queued only with the capacity
\* used up, and a drain goes on admitting the head until one of the two holds.
C21_QueueOnlyWhenFull ==
    queue = <<>> \/ requestsLastPeriod >= rateLim

\* C21 witness: two calls were queued behind an admitted one; a release has
\* drained the queue, admitting the head and stopping with the capacity used
\* up again, so that the other call is still in the queue.
C21_Witness ==
    /\ Len(enqueued) = 2
    /\ Len(StartedFromQueue) = 1
    /\ Len(queue) = 1
    /\ requestsLastPeriod = rateLim

NoDuplicates(q) == \A i, j \in 1..Len(q) : q[i] = q[j] => i = j

\* C22: however the releases and their drains follow each other, every
\* request that was queued is taken out of the queue exactly once and started
\* exactly once: the requests queued so far are those started from the queue
\* followed by those still in it, none twice, none missing, and no call has
\* more than one first attempt.
C22_PoppedExactlyOnce ==
    /\ enqueued = StartedFromQueue \o queue
    /\ NoDuplicates(enqueued)
    /\ NoDuplicates(started)
    /\ \A c \in Range(queue) : calls[c] = 0 /\ phase[c] = "queued"
    /\ \A c \in Range(started) : calls[c] >= 1

\* C22 witness: with rateLim = 2 two calls were admitted at the same moment
\* and a third one queued; their two releases ran back to back, the first
\* drain admitted the queued call and the second found the queue empty.
C22_Witness ==
    /\ rateLim = 2 /\ periodLength > 0
    /\ started = <<1, 2, 3>>
    /\ enqueued = <<3>>
    /\ queue = <<>>
    /\ admitAge[1] = periodLength /\ admitAge[2] = periodLength /\ admitAge[3] = 0
    /\ requestsLastPeriod = 1

\* C23: when an attempt fails and the backoff policy returns a wait, the
\* counter is raised by rateLim at once, and this is taken back only after
\* the wait is over and the retry with all its nested retries has settled.
\* Until the chain's last attempt has settled every containment of the chain
\* is in place, one rateLim for each of the call's failures that got a wait,
\* so the capacity is used up and a drain admits nothing; the containments
\* are given back while the outcome is passed up, after the last attempt.
C23_ContainmentCoversChain ==
    /\ \A c \in Calls :
        /\ phase[c] = "backoff" => held[c] = attemptNr[c] + 1
        /\ phase[c] = "running" => held[c] = attemptNr[c]
        /\ phase[c] = "unwind" =>
                /\ held[c] \in 1..attemptNr[c]
                /\ result[c].kind # "none" /\ result[c].attempt = attemptNr[c]
        /\ phase[c] \in {"idle", "queued", "resolved", "rejected"} => held[c] = 0
        /\ InChain(c) => result[c] = NoResult
    /\ requestsLastPeriod >= rateLim * PendingBlocks
    /\ (\E c \in Calls : InChain(c)) => requestsLastPeriod >= rateLim

\* C23 witness: a call has failed twice and is in its second backoff wait;
\* two containments are stacked and another call waits in the queue.
C23_Witness ==
    \E c \in Calls :
        /\ phase[c] = "backoff" /\ held[c] = 2
        /\ rateLim = 2
        /\ requestsLastPeriod >= 2 * rateLim
        /\ queue # <<>>

\* the step is the handling of a failure of call c for which the backoff
\* policy gives up, in a run of its own (the awaited promise rejected) or in
\* the call() or the retry that invoked the operation
GivesUp(c) ==
    /\ phase[c] \in {"idle", "running", "backoff"}
    /\ result[c].kind = "none" /\ result'[c].kind = "error"

FailedAttempts(c) ==
    calls[c] - (IF phase[c] = "running" THEN 1 ELSE 0)
             - (IF result[c].kind = "value" THEN 1 ELSE 0)

\* C25: the backoff policy is asked exactly once for each failed attempt, with
\* the number of that attempt: 0 for the first attempt of a call, admitted at
\* once or taken from the queue, and one more with each retry of that call,
\* whatever the attempt numbers of other calls are.  So the numbers it was
\* asked with for a call are 0, 1, 2, ... up to the number of that call's
\* failed attempts.
C25_BackoffAskedOncePerFailure ==
    \A c \in Calls :
        /\ Len(queried[c]) = FailedAttempts(c)
        /\ \A i \in 1..Len(queried[c]) : queried[c][i] = i - 1
        /\ calls[c] > 0 => attemptNr[c] = calls[c] - 1
        /\ result[c].kind = "error" => result[c].attempt = Len(queried[c]) - 1

\* C25 witness: a call that was taken from the queue has failed twice while
\* another call, admitted at once, has failed once: the policy was asked with
\* 0 and 1 for the first and with 0 for the second.
C25_Witness ==
    \E c, d \in Calls :
        /\ c \in Range(enqueued) /\ queried[c] = <<0, 1>>
        /\ d \notin Range(enqueued) /\ queried[d] = <<0>>

\* the calls first invoked exactly a time units ago
AdmittedAt(a) == {c \in Calls : calls[c] > 0 /\ admitAge[c] = a}

\* C26: the slot taken at an admission is given back periodLength after the
\* admission whether the operation has settled or not.  In a run without
\* failures, with periodLength > 0: a slot is held for every call admitted
\* less than periodLength ago and for no call admitted more than periodLength
\* ago, and a release whose time is up can run at once, whatever the
\* operations are doing.
C26_ReleaseIgnoresOutcome ==
    periodLength > 0 =>
        /\ \A a \in 0..(periodLength - 1) : slots[a] = Cardinality(AdmittedAt(a))
        /\ slots[periodLength] <= Cardinality(AdmittedAt(periodLength))
        /\ requestsLastPeriod = PendingSlots
        /\ slots[periodLength] > 0 => ENABLED releaseSlot(periodLength, {})

\* C26 witness: with rateLim = 1 the first call's operation is still pending
\* more than periodLength after its admission; its slot was given back and
\* the second call, which had to queue, has been admitted.
C26_Witness ==
    /\ rateLim = 1 /\ periodLength > 0
    /\ phase[1] = "running" /\ admitAge[1] > periodLength
    /\ enqueued = <<2>>
    /\ started = <<1, 2>>
    /\ admitAge[2] = 1

\* some call has been retried
SomeRetried == \E c \in Calls : calls[c] > 1

AllSettled == \A c \in Calls : phase[c] # "idle" => Settled(c)

\* no release is scheduled: no slot and no containment is pending
NoReleasePending == PendingSlots = 0 /\ PendingBlocks = 0

Idle == requestsLastPeriod = 0 /\ queue = <<>>

\* C28: the handler always returns to its idle state.  Once every submitted
\* call has settled and every scheduled release has run, requestsLastPeriod = 0
\* and the queue is empty; capacity is never consumed and no entry is ever in
\* the queue without a release being scheduled that will give the capacity
\* back and drain the queue; and while the event loop runs, the idle state is
\* reached again and again, for every mix of successes, failures, retries and
\* queued calls.
C28_ReturnsToIdle ==
    /\ [](AllSettled /\ NoReleasePending => Idle)
    /\ [](requestsLastPeriod > 0 \/ queue # <<>> => ~NoReleasePending)
    /\ []<>Idle

\* C28 witness: three calls, of which one was queued, one was retried, one was
\* rejected and one resolved, have all settled, every release has run, and the
\* handler is idle.
C28_Witness ==
    /\ \A c \in Calls : Settled(c)
    /\ NoReleasePending
    /\ Idle
    /\ enqueued # <<>>
    /\ \E c \in Calls : calls[c] > 1
    /\ \E c \in Calls : phase[c] = "rejected"
    /\ \E c \in Calls : phase[c] = "resolved"

\* The operations invoked less than periodLength ago that took a slot: a slot
\* is held for at least periodLength from the invocation it was taken for
\* (lines 77-78 and timeout, lines 9-15), so these are invocations within one
\* window of length periodLength.
InvokedInWindow ==
    SumOver([a \in 0..periodLength |-> IF a < periodLength THEN slots[a] ELSE 0],
            0..periodLength)

\* C29 as stated: all invocations made through one handler obey the rate
\* limit together, retries included: no window of length periodLength holds
\* more than rateLim invocations, first attempts and retry attempts counted
\* alike, for any backoff policy and any pattern of failures.
C29_RetriesObeyRateLimit ==
    periodLength > 0 => InvokedInWindow <= rateLim

\* call c arrives in this step and its operation is invoked in the same step
Bypasses(c) == submitted' = c /\ submitted = c - 1 /\ calls'[c] > 0

\* C30: a newly arriving call never overtakes a queued call.  A call is
\* invoked at its arrival only when requestsLastPeriod < rateLim, and then the
\* queue is empty and every call submitted before has been invoked; so the
\* order of first invocations, of queued and not queued calls alike, is the
\* order of submission.
C30_NoOvertaking ==
    [][/\ \A c \in Calls : Bypasses(c) =>
                /\ requestsLastPeriod < rateLim
                /\ queue = <<>>
                /\ started = [i \in 1..(c - 1) |-> i]
       /\ started' = [i \in 1..Len(started') |-> i]]_vars

\* C30 witness: the second call was queued and admitted by a drain, and the
\* third call, arriving after that with capacity free, was invoked at once.
C30_Witness ==
    /\ rateLim = 1
    /\ started = <<1, 2, 3>>
    /\ enqueued = <<2>>
    /\ queue = <<>>

====
